---- MODULE Spec2Model ----
(***************************************************************************)
(* A model of aioes.transport.Transport: the endpoint list, the pool and   *)
(* its rebuild, discovery ("sniffing") and the retrying request loop.      *)
(* Connection and ConnectionPool are collaborators of the transport whose  *)
(* code is in aioes/connection.py and aioes/pool.py; they are modelled by  *)
(* their contracts.                                                        *)
(***************************************************************************)
EXTENDS Integers, Sequences, FiniteSets, TLC

\* ------------------------------------------------------------------ bounds
\* Longest endpoint list given to the constructor or the endpoints setter.
MaxLen == 2
\* Last value of the monotonic clock.
MaxClock == 1
\* Number of pool objects built after the constructor's.
MaxPools == 1
Hosts == {"10.0.0.1", "10.0.0.2"}
Ports == {9200}
\* The namedtuple Endpoint(host, port).
Endpoint == [host : Hosts, port : Ports]

\* Values of the constructor's max_retries and sniff_timeout arguments
\* (0 stands for a falsy timeout: None or 0).
RetryChoices == {0, 1}
TimeoutChoices == {0, 1}

Tasks == {1}

\* ----------------------------------------------------------------- helpers
Range(s) == {s[i] : i \in DOMAIN s}

SeqsUpTo(S, n) == UNION {[1..k -> S] : k \in 0..n}

\* random.shuffle(connections): any arrangement of the same list.
Shuffles(s) ==
    LET n == Len(s)
        perms == {p \in [1..n -> 1..n] : \A i, j \in 1..n : p[i] = p[j] => i = j}
    IN {[i \in 1..n |-> s[p[i]]] : p \in perms}

\* ------------------------------------------------------------------- state
VARIABLES
    endpoints,          \* Transport._endpoints
    pool,               \* Transport._pool: [id, connections]
    connection,         \* the Connection objects made so far, by identity
    seed_connections,   \* Transport._seed_connections
    sniffer_timeout,    \* Transport._sniffer_timeout
    sniff_timeout,      \* Transport._sniff_timeout
    max_retries,        \* Transport._max_retries
    last_sniff,         \* Transport._last_sniff
    sniff_on_connection_fail,   \* Transport._sniff_on_connection_fail
    now,                \* time.monotonic()
    task                \* the coroutines in progress

vars == <<endpoints, pool, connection, seed_connections, sniffer_timeout,
          sniff_timeout, max_retries, last_sniff, sniff_on_connection_fail,
          now, task>>

\* What the calls leave alone: the settings of the constructor.
settings == <<seed_connections, sniffer_timeout, sniff_timeout, max_retries,
              sniff_on_connection_fail>>

\* An instance attribute that no statement has assigned: reading it raises
\* AttributeError.
Unset == "unset"

\* --------------------------------------------------- Connection and the pool
\* The identities of Connection objects. An object that nothing refers to any
\* more is collected and its identity may be given to a later object.
ConnIds == 1..(3 * MaxLen)

\* Connection(endpoint, loop=...): a new object, open, with no failure recorded.
NewConnection(e) == [endpoint |-> e, closed |-> FALSE, dead |-> FALSE]

\* The identity of the next object made.
FreshId(heap) == CHOOSE c \in ConnIds \ DOMAIN heap :
                     \A d \in ConnIds \ DOMAIN heap : c <= d

\* ConnectionPool.detach(connection): the pool no longer holds it; not closed.
Detach(conns, c) == SelectSeq(conns, LAMBDA x : x # c)

\* ConnectionPool.close(): every connection the pool still holds is closed.
PoolClose(heap, conns) ==
    [c \in DOMAIN heap |->
        IF c \in Range(conns) THEN [heap[c] EXCEPT !.closed = TRUE] ELSE heap[c]]

\* ConnectionPool.mark_dead / mark_live: the connection's health state.
PoolMarkDead(heap, c) == [heap EXCEPT ![c].dead = TRUE]
PoolMarkLive(heap, c) == [heap EXCEPT ![c].dead = FALSE]

\* ------------------------------------------------- endpoint specifications
\* The dicts given as endpoints: {'host': '10.0.0.2', 'port': 9200} and
\* {'host': '10.0.0.1'}.
DictEntries ==
    {[dict |-> "dict", host |-> "10.0.0.2", port |-> 9200],
     [dict |-> "dict", host |-> "10.0.0.1"]}

\* An entry that is neither an Endpoint nor a dict: the string '10.0.0.1:9200'.
BadEntry == [str |-> "10.0.0.1:9200"]

\* What a caller gives as an entry of an endpoint list.
RawEntries == Endpoint \cup DictEntries

\* isinstance(e, Endpoint) and isinstance(e, dict)
IsEndpoint(e) == e \in Endpoint
IsDict(e) == "dict" \in DOMAIN e

\* _convert_endpoints raises RuntimeError("Bad endpoint ...") (line 78).
ConvertRaises(raw) == \E i \in DOMAIN raw : ~IsEndpoint(raw[i]) /\ ~IsDict(raw[i])

\* Lines 71-76: an Endpoint as it is, a dict as Endpoint(host, port) with
\* port 9200 when the dict has none.
ConvertEntry(e) ==
    IF IsEndpoint(e) THEN e
    ELSE [host |-> e.host, port |-> IF "port" \in DOMAIN e THEN e.port ELSE 9200]

\* _convert_endpoints(raw) when it returns.
ConvertEndpoints(raw) == [i \in DOMAIN raw |-> ConvertEntry(raw[i])]

\* "endpoint in old_connections" (line 85) hashes the entry: a dict is
\* unhashable and the test raises TypeError.
Unhashable(e) == IsDict(e)

\* ------------------------------------------------- _reinitialize_endpoints
\* {c.endpoint: c for c in self._pool.connections}: a later connection of the
\* same endpoint replaces an earlier one.
OldConnections(heap, conns) ==
    [e \in {heap[c].endpoint : c \in Range(conns)} |->
        LET last == CHOOSE i \in DOMAIN conns :
                        /\ heap[conns[i]].endpoint = e
                        /\ \A j \in DOMAIN conns :
                               heap[conns[j]].endpoint = e => j <= i
        IN conns[last]]

\* A loop that makes a new Connection for every endpoint.
ReuseNever(old, e) == FALSE

\* Line 85: whether the loop reuses a connection of the old pool.
Reuse(old, e) == e \in DOMAIN old

\* The for loop over self._endpoints from entry i on; st is [heap, old, new]:
\* the objects, what the old pool still holds, and the list being built.
RECURSIVE ReinitLoop(_, _, _, _)
ReinitLoop(eps, old, i, st) ==
    IF i > Len(eps) THEN st
    ELSE IF Reuse(old, eps[i])
         THEN ReinitLoop(eps, old, i + 1,
                  [st EXCEPT !.new = Append(@, old[eps[i]]),
                             !.old = Detach(@, old[eps[i]])])
         ELSE ReinitLoop(eps, old, i + 1,
                  [st EXCEPT !.heap = @ @@ (FreshId(@) :> NewConnection(eps[i])),
                             !.new = Append(@, FreshId(st.heap))])

\* The list of the rebuilt pool before the shuffle, the objects after the
\* old pool was closed, and what the old pool was left with.
Reinitialized(eps, heap, conns) ==
    LET st == ReinitLoop(eps, OldConnections(heap, conns), 1,
                         [heap |-> heap, old |-> conns, new |-> <<>>])
    IN [heap |-> PoolClose(st.heap, st.old), new |-> st.new, old |-> st.old]

\* The objects still referred to: by the pool, the seed list or a task.
Collect(heap, refs) == [c \in DOMAIN heap \cap refs |-> heap[c]]

\* --------------------------------------------------------------- discovery
Absent == "absent"
AttrValues == {Absent, "true", "false"}
\* n.get('attributes', {}): the flags of a node, each possibly absent.
Attributes == [data : AttrValues, client : AttrValues, master : AttrValues]

\* An http_address string as its tokens, as in "inet[wind/127.0.0.1:9200]".
Inet(h) == <<"inet[", "wind", "/", h, ":", "9200", "]">>

\* The http_address strings of the responses; <<>> is the '' of a node
\* without the key.
Addresses ==
    {Inet(h) : h \in Hosts}
        \cup {<<"/", "10.0.0.1", ":", "9200">>, <<"10.0.0.2", ":", "9200">>, <<>>}

NoAttributes == [data |-> Absent, client |-> Absent, master |-> Absent]
DedicatedMaster == [data |-> "false", client |-> "false", master |-> "true"]

DataNode == [data |-> "true", client |-> Absent, master |-> Absent]

\* node_info['nodes'].values() of the responses: no node; one node, with any
\* address; a node with any flags beside a data node; two dedicated masters;
\* two nodes without flags (at one address or at two).
NodeLists ==
    {<<>>}
        \cup {<<n>> : n \in [http_address : Addresses,
                             attributes : {NoAttributes, DedicatedMaster}]}
        \cup {<<n, [http_address |-> Inet("10.0.0.2"), attributes |-> DataNode]>> :
                  n \in [http_address : {Inet("10.0.0.1")}, attributes : Attributes]}
        \cup [1..2 -> [http_address : {Inet(h) : h \in Hosts},
                       attributes : {DedicatedMaster}]]
        \cup [1..2 -> [http_address : {Inet(h) : h \in Hosts},
                       attributes : {NoAttributes}]]

\* int(dct['port'])
PortValue(tok) == CASE tok = "9200" -> 9200 [] tok = "9300" -> 9300

\* ADDRESS_RE.search(addr): '/', host, ':', port and an optional ']' at the
\* end of the string; the host may be empty. <<>> when there is no match.
AddressMatch(addr) ==
    LET n0 == Len(addr)
        s == IF n0 > 0 /\ addr[n0] = "]" THEN SubSeq(addr, 1, n0 - 1) ELSE addr
        n == Len(s)
    IN IF n >= 4 /\ s[n - 3] = "/" /\ s[n - 2] \in Hosts /\ s[n - 1] = ":"
            /\ s[n] \in {"9200", "9300"}
       THEN <<[host |-> s[n - 2], port |-> PortValue(s[n])]>>
       ELSE IF n >= 3 /\ s[n - 2] = "/" /\ s[n - 1] = ":"
                 /\ s[n] \in {"9200", "9300"}
            THEN <<[host |-> "", port |-> PortValue(s[n])]>>
            ELSE <<>>

\* attrs.get(key, default)
AttrGet(attrs, key, default) ==
    IF attrs[key] = Absent THEN default ELSE attrs[key]

\* The condition with 'false' as the default of data.
ExcludedDataDefaultFalse(attrs) ==
    /\ AttrGet(attrs, "data", "false") = "false"
    /\ AttrGet(attrs, "client", "false") = "false"
    /\ AttrGet(attrs, "master", "true") = "true"

\* The condition of lines 155-157 under the "not".
Excluded(attrs) ==
    /\ AttrGet(attrs, "data", "true") = "false"
    /\ AttrGet(attrs, "client", "false") = "false"
    /\ AttrGet(attrs, "master", "true") = "true"

\* The loop over the nodes: the endpoints list it builds.
RECURSIVE NodesToEndpoints(_)
NodesToEndpoints(nodes) ==
    IF nodes = <<>> THEN <<>>
    ELSE LET n == Head(nodes)
             match == AddressMatch(n.http_address)
         IN (IF match # <<>> /\ ~Excluded(n.attributes) THEN match ELSE <<>>)
                \o NodesToEndpoints(Tail(nodes))

\* A sniff that assigns self.endpoints before it looks at the list.
SniffOutcomeAssignsFirst(eps) == [raise |-> eps = <<>>, assign |-> TRUE]

\* Lines 162-167: an empty list raises before the assignment to
\* self.endpoints.
SniffOutcome(eps) == [raise |-> eps = <<>>, assign |-> eps # <<>>]

\* ------------------------------------------------------------------- tasks
NoPool == [id |-> 0, connections |-> <<>>]

\* What a task records of the sniff it runs or has just run: how it went, the
\* 'nodes' of the response it used, and the topology when it started.
NoSniff == [state |-> "none", nodes |-> <<>>, endpoints |-> <<>>, pool |-> NoPool]

\* A coroutine of the transport. pc, op, attempt, conn, previous_sniff, cands,
\* idx and after are its position and locals; result is what it returned or
\* raised; attempts records the requests of the call on the connections it
\* acquired, in order, each with its outcome. pool is the pool object whose
\* get_connection() the task is in (line 104): its id and, once the transport
\* has replaced that object, the connections it was left with.
IdleTask ==
    [pc |-> "idle", op |-> "none", attempt |-> 0, conn |-> 0,
     previous_sniff |-> 0, cands |-> <<>>, idx |-> 0, after |-> "none",
     result |-> "none", attempts |-> <<>>, sniff |-> NoSniff, pool |-> NoPool]

\* self._pool as line 104 reads it: the pool object with the id.
PoolObject(id) == [id |-> id, connections |-> <<>>]

\* The request of the task on its connection ends with the outcome.
Attempted(tk, outcome) ==
    [tk EXCEPT !.attempts = Append(@, [conn |-> tk.conn, outcome |-> outcome])]

AllIdle == \A t \in Tasks : task[t].pc = "idle"

\* The connections the locals of the tasks refer to.
TaskRefs(tasks) ==
    UNION {Range(tasks[t].cands) \cup Range(tasks[t].pool.connections)
               \cup (IF tasks[t].conn = 0 THEN {} ELSE {tasks[t].conn})
           : t \in Tasks}

\* _reinitialize_endpoints as a step: the new pool is a new object (pools are
\* numbered as they are built), and the objects nothing refers to after the
\* step are collected.
Reinitialize(eps) ==
    LET r == Reinitialized(eps, connection, pool.connections)
    IN \E s \in Shuffles(r.new) :
           /\ pool.id <= MaxPools
           /\ pool' = [id |-> pool.id + 1, connections |-> s]
           /\ connection' = Collect(r.heap, Range(s) \cup Range(seed_connections)
                                                 \cup TaskRefs(task'))

\* The call ends: it returned (result "ok") or raised.
Ended(tk, result) == [tk EXCEPT !.pc = "done", !.result = result]

\* The sniff of the task ends.
SniffEnded(tk, state, nodes) ==
    [tk EXCEPT !.sniff.state = state, !.sniff.nodes = nodes,
               !.cands = <<>>, !.idx = 0]

\* Lines 224-226 and the next turn of the for loop.
AfterMarkDead(tk) ==
    IF tk.attempt = max_retries
    THEN Ended(tk, "ConnectionError")
    ELSE [tk EXCEPT !.attempt = @ + 1, !.pc = "get_connection"]

\* Where a sniff that succeeded hands control back. Line 104 then reads the
\* pool that the sniff's assignment to self.endpoints has just built.
AfterSniff(tk) ==
    CASE tk.after = "return" -> Ended(tk, "ok")
      [] tk.after = "select" ->
             [tk EXCEPT !.pc = "select", !.pool = PoolObject(pool.id + 1)]
      [] tk.after = "mark_dead" -> AfterMarkDead(tk)

\* sniff_endpoints up to its first request (lines 116-129). With nothing to
\* iterate over, the for's else clause raises at once and the except clause
\* puts last_sniff back.
BeginSniff(t, tk, after) ==
    LET cands == pool.connections \o seed_connections
        tk1 == [tk EXCEPT !.previous_sniff = last_sniff, !.cands = cands,
                          !.idx = 1, !.after = after,
                          !.sniff = [state |-> "running", nodes |-> <<>>,
                                     endpoints |-> endpoints, pool |-> pool]]
    IN IF cands = <<>>
       THEN /\ last_sniff' = last_sniff
            /\ task' = [task EXCEPT ![t] =
                            Ended(SniffEnded(tk1, "unable", <<>>),
                                  "TransportError: Unable to sniff endpoints.")]
       ELSE /\ last_sniff' = now
            /\ task' = [task EXCEPT ![t] = [tk1 EXCEPT !.pc = "sniff"]]

\* ------------------------------------------------------------ construction
\* Transport(endpoints, sniff_timeout=..., max_retries=..., loop=loop) with a
\* list of Endpoint values. sniffer_timeout and sniff_timeout are both set
\* from the sniff_timeout argument; _sniff_on_connection_fail is not assigned.
Init ==
    \E eps \in SeqsUpTo(Endpoint, MaxLen), mr \in RetryChoices, st \in TimeoutChoices :
        /\ eps # <<>>
        /\ endpoints = eps
        /\ LET r == Reinitialized(eps, <<>>, <<>>)
           IN /\ connection = r.heap
              /\ \E s \in Shuffles(r.new) :
                     /\ pool = [id |-> 1, connections |-> s]
                     /\ seed_connections = s
        /\ sniffer_timeout = st
        /\ sniff_timeout = st
        /\ max_retries = mr
        /\ sniff_on_connection_fail = Unset
        /\ now = 0
        /\ last_sniff = now
        /\ task = [t \in Tasks |-> IdleTask]

\* ---------------------------------------------------------------- actions
\* transport.endpoints = eps
SetEndpoints ==
    /\ AllIdle
    /\ UNCHANGED <<settings, last_sniff, now, task>>
    /\ \E eps \in SeqsUpTo(Endpoint, MaxLen) :
           /\ endpoints' = eps
           /\ Reinitialize(eps)

\* The monotonic clock advances.
Tick ==
    /\ now < MaxClock
    /\ now' = now + 1
    /\ UNCHANGED <<endpoints, pool, connection, settings, last_sniff, task>>

\* A caller starts transport.sniff_endpoints().
CallSniffEndpoints(t) ==
    /\ AllIdle
    /\ BeginSniff(t, [IdleTask EXCEPT !.op = "sniff_endpoints"], "return")
    /\ UNCHANGED <<endpoints, pool, connection, settings, now>>

\* The request on the current candidate fails with a ConnectionError, or its
\* body is not JSON (ValueError) or None (TypeError): the next candidate, or
\* the for's else clause and the except clause that restores last_sniff.
SniffCandidateFails(t) ==
    LET tk == task[t] IN
    /\ tk.pc = "sniff"
    /\ IF tk.idx < Len(tk.cands)
       THEN /\ task' = [task EXCEPT ![t].idx = @ + 1]
            /\ UNCHANGED last_sniff
       ELSE /\ task' = [task EXCEPT ![t] =
                            Ended(SniffEnded(tk, "unable", <<>>),
                                  "TransportError: Unable to sniff endpoints.")]
            /\ last_sniff' = tk.previous_sniff
    /\ UNCHANGED <<endpoints, pool, connection, settings, now>>

\* The current candidate answers with a JSON document without 'nodes':
\* node_info['nodes'] raises KeyError after the try statement.
SniffResponseWithoutNodes(t) ==
    LET tk == task[t] IN
    /\ tk.pc = "sniff"
    /\ ~connection[tk.cands[tk.idx]].closed
    /\ task' = [task EXCEPT ![t] = Ended(SniffEnded(tk, "keyerror", <<>>), "KeyError")]
    /\ UNCHANGED <<endpoints, pool, connection, settings, last_sniff, now>>

\* The current candidate answers with a document that has 'nodes'
\* (lines 141-167).
SniffResponse(t) ==
    LET tk == task[t] IN
    /\ tk.pc = "sniff"
    /\ ~connection[tk.cands[tk.idx]].closed
    /\ \E nodes \in NodeLists :
           LET eps == NodesToEndpoints(nodes)
               out == SniffOutcome(eps)
               tk1 == SniffEnded(tk, IF out.raise THEN "noviable" ELSE "ok", nodes)
           IN /\ task' = [task EXCEPT ![t] =
                     IF out.raise
                     THEN Ended(tk1, "TransportError: Unable to sniff endpoints - no viable endpoints found.")
                     ELSE AfterSniff(tk1)]
              /\ IF out.assign
                 THEN /\ endpoints' = eps
                      /\ Reinitialize(eps)
                 ELSE UNCHANGED <<endpoints, pool, connection>>
    /\ UNCHANGED <<settings, last_sniff, now>>

\* A caller starts transport.perform_request(...): the first turn of the loop.
CallPerformRequest(t) ==
    /\ AllIdle
    /\ task' = [task EXCEPT ![t] =
                    [IdleTask EXCEPT !.op = "perform_request", !.pc = "get_connection"]]
    /\ UNCHANGED <<endpoints, pool, connection, settings, last_sniff, now>>

\* get_connection, lines 101-103: the sniff that is due comes first.
GetConnection(t) ==
    LET tk == task[t] IN
    /\ tk.pc = "get_connection"
    /\ IF sniffer_timeout # 0 /\ now >= last_sniff + sniffer_timeout
       THEN BeginSniff(t, tk, "select")
       ELSE /\ task' = [task EXCEPT ![t].pc = "select",
                                     ![t].pool = PoolObject(pool.id)]
            /\ UNCHANGED last_sniff
    /\ UNCHANGED <<endpoints, pool, connection, settings, now>>

\* The connections of the pool that are not marked dead.
Live == {c \in Range(pool.connections) : ~connection[c].dead}

\* What the selection of a pool object p chooses from: the transport's pool
\* when p is still that, else what was left in p when it was replaced.
Selectable(p) ==
    IF p.id = pool.id THEN Live
    ELSE {c \in Range(p.connections) : ~connection[c].dead}

\* get_connection, line 104: the pool selects a connection.
SelectConnection(t) ==
    /\ task[t].pc = "select"
    /\ \E c \in Selectable(task[t].pool) :
           task' = [task EXCEPT ![t].conn = c, ![t].pc = "request",
                                ![t].sniff = NoSniff, ![t].pool = NoPool]
    /\ UNCHANGED <<endpoints, pool, connection, settings, last_sniff, now>>

\* get_connection, line 104: the pool has no live connection and raises.
SelectFails(t) ==
    /\ task[t].pc = "select"
    /\ Selectable(task[t].pool) = {}
    /\ task' = [task EXCEPT ![t] =
                    Ended([task[t] EXCEPT !.sniff = NoSniff, !.pool = NoPool],
                          "PoolError")]
    /\ UNCHANGED <<endpoints, pool, connection, settings, last_sniff, now>>

\* The attempt succeeds (lines 227-232).
RequestSucceeds(t) ==
    LET tk == task[t] IN
    /\ tk.pc = "request"
    /\ ~connection[tk.conn].closed
    /\ connection' = PoolMarkLive(connection, tk.conn)
    /\ task' = [task EXCEPT ![t] = Ended(Attempted(tk, "ok"), "ok")]
    /\ UNCHANGED <<endpoints, pool, settings, last_sniff, now>>

\* The attempt raises ConnectionError (lines 221-226): mark_dead (lines
\* 180-182), whose read of an unassigned attribute raises AttributeError.
RequestConnectionError(t) ==
    LET tk == Attempted(task[t], "ConnectionError") IN
    /\ task[t].pc = "request"
    /\ connection' = PoolMarkDead(connection, tk.conn)
    /\ IF sniff_on_connection_fail = Unset
       THEN /\ task' = [task EXCEPT ![t] = Ended(tk, "AttributeError")]
            /\ UNCHANGED last_sniff
       ELSE IF sniff_on_connection_fail = "true"
            THEN BeginSniff(t, tk, "mark_dead")
            ELSE /\ task' = [task EXCEPT ![t] = AfterMarkDead(tk)]
                 /\ UNCHANGED last_sniff
    /\ UNCHANGED <<endpoints, pool, settings, now>>

\* The attempt exceeds request_timeout: asyncio.wait_for raises
\* asyncio.TimeoutError, which "except ConnectionError" does not catch.
RequestTimeout(t) ==
    LET tk == Attempted(task[t], "TimeoutError") IN
    /\ task[t].pc = "request"
    /\ task' = [task EXCEPT ![t] = Ended(tk, "TimeoutError")]
    /\ UNCHANGED <<endpoints, pool, connection, settings, last_sniff, now>>

\* The caller has the result; the coroutine is gone.
Return(t) ==
    /\ task[t].pc = "done"
    /\ task' = [task EXCEPT ![t] = IdleTask]
    /\ UNCHANGED <<endpoints, pool, connection, settings, last_sniff, now>>

Next ==
    \/ SetEndpoints
    \/ Tick
    \/ \E t \in Tasks :
           \/ CallSniffEndpoints(t)
           \/ SniffCandidateFails(t)
           \/ SniffResponseWithoutNodes(t)
           \/ SniffResponse(t)
           \/ CallPerformRequest(t)
           \/ GetConnection(t)
           \/ SelectConnection(t)
           \/ SelectFails(t)
           \/ RequestSucceeds(t)
           \/ RequestConnectionError(t)
           \/ RequestTimeout(t)
           \/ Return(t)

Spec == Init /\ [][Next]_vars

\* transport.endpoints = raw, by code that runs while the coroutines of the
\* transport are suspended, with a list of Endpoint values and dicts. The
\* setter stores the list as it is (line 62) and rebuilds the pool; at the
\* first dict of the list the rebuild raises TypeError, which leaves the pool
\* object in place without the connections detached up to there. A pool
\* object that is replaced while a task is in its get_connection() stays with
\* that task.
AssignEndpoints ==
    \E raw \in SeqsUpTo(RawEntries, MaxLen) :
        /\ endpoints' = raw
        /\ UNCHANGED <<settings, last_sniff, now>>
        /\ IF \A i \in DOMAIN raw : ~Unhashable(raw[i])
           THEN /\ task' = [t \in Tasks |->
                               IF task[t].pool.id = pool.id
                               THEN [task[t] EXCEPT !.pool.connections =
                                        Reinitialized(raw, connection, pool.connections).old]
                               ELSE task[t]]
                /\ Reinitialize(raw)
           ELSE LET k == CHOOSE i \in DOMAIN raw :
                             /\ Unhashable(raw[i])
                             /\ \A j \in 1..(i - 1) : ~Unhashable(raw[j])
                    st == ReinitLoop(SubSeq(raw, 1, k - 1),
                                     OldConnections(connection, pool.connections), 1,
                                     [heap |-> connection, old |-> pool.connections,
                                      new |-> <<>>])
                IN /\ pool' = [pool EXCEPT !.connections = st.old]
                   /\ connection' = Collect(connection,
                                         Range(st.old) \cup Range(seed_connections)
                                             \cup TaskRefs(task))
                   /\ UNCHANGED task

\* Transport([e], sniff_timeout=0, max_retries=0, loop=loop) where e is an
\* Endpoint value, a dict or another entry: there is a transport when
\* _convert_endpoints returns.
InitConcurrent ==
    \E raw \in SeqsUpTo(RawEntries \cup {BadEntry}, MaxLen) :
        /\ Len(raw) = 1
        /\ ~ConvertRaises(raw)
        /\ Init
        /\ endpoints = ConvertEndpoints(raw)
        /\ max_retries = 0
        /\ sniff_timeout = 0

\* A caller's requests, with assignments to endpoints at any of their
\* suspension points.
NextConcurrent ==
    \/ AssignEndpoints
    \/ \E t \in Tasks :
           \/ CallPerformRequest(t)
           \/ GetConnection(t)
           \/ SelectConnection(t)
           \/ SelectFails(t)
           \/ RequestSucceeds(t)
           \/ RequestConnectionError(t)
           \/ RequestTimeout(t)
           \/ Return(t)

SpecConcurrent == InitConcurrent /\ [][NextConcurrent]_vars

\* The transport under callers that only assign endpoints and call
\* sniff_endpoints, constructed with max_retries = 1 and sniff_timeout = 1.
InitTopology == Init /\ max_retries = 1 /\ sniff_timeout = 1

NextTopology ==
    \/ SetEndpoints
    \/ \E t \in Tasks :
           \/ CallSniffEndpoints(t)
           \/ SniffCandidateFails(t)
           \/ SniffResponseWithoutNodes(t)
           \/ SniffResponse(t)
           \/ Return(t)

SpecTopology == InitTopology /\ [][NextTopology]_vars
\* ------------------------------------------------------------------ claims
\* The perform_request calls that have ended, and their last request.
EndedRequests ==
    {t \in Tasks : task[t].pc = "done" /\ task[t].op = "perform_request"}

LastAttempt(t) == task[t].attempts[Len(task[t].attempts)]

\* C1: a perform_request call in which every request failed with a connection
\* error has made exactly max_retries + 1 requests and has failed with a
\* ConnectionError.
C1_AllAttemptsThenConnectionError ==
    \A t \in EndedRequests :
        (/\ task[t].attempts # <<>>
         /\ \A i \in DOMAIN task[t].attempts :
                task[t].attempts[i].outcome = "ConnectionError")
            => /\ Len(task[t].attempts) = max_retries + 1
               /\ task[t].result = "ConnectionError"

\* C2: a connection error on a request that is not the last allowed one does
\* not end the call; and a call that returned has every connection whose
\* request failed marked dead and the connection that succeeded marked live.
C2_RetryAfterConnectionError ==
    \A t \in EndedRequests :
        /\ (task[t].attempts # <<>> /\ LastAttempt(t).outcome = "ConnectionError")
               => Len(task[t].attempts) = max_retries + 1
        /\ task[t].result = "ok"
               => \A i \in DOMAIN task[t].attempts :
                      LET a == task[t].attempts[i]
                      IN IF a.outcome = "ok"
                         THEN ~connection[a.conn].dead
                         ELSE a.conn = LastAttempt(t).conn \/ connection[a.conn].dead

\* C3: a request that exceeds request_timeout is handled like one that fails
\* with a connection error: its connection is marked dead, and the call does
\* not end with it unless it was the last allowed request.
C3_TimeoutIsRetried ==
    \A t \in EndedRequests :
        (task[t].attempts # <<>> /\ LastAttempt(t).outcome = "TimeoutError")
            => /\ connection[LastAttempt(t).conn].dead
               /\ Len(task[t].attempts) = max_retries + 1

\* C4: when the last allowed request fails with a connection error, the call
\* fails with that ConnectionError and with no other error.
C4_LastErrorSurfaces ==
    \A t \in EndedRequests :
        (/\ Len(task[t].attempts) = max_retries + 1
         /\ LastAttempt(t).outcome = "ConnectionError")
            => task[t].result = "ConnectionError"

\* C5: when a sniff has failed with a TransportError (no candidate gave a
\* usable response, or no viable endpoint was left), last_sniff is what it was
\* before the sniff started.
C5_FailedSniffRestoresLastSniff ==
    \A t \in Tasks :
        task[t].sniff.state \in {"unable", "noviable"}
            => last_sniff = task[t].previous_sniff

\* C6: when a sniff has failed (no candidate gave a usable response, or no
\* viable endpoint was left), endpoints, the pool object and the connections
\* of the pool are what they were when the sniff started, and no connection
\* of the pool is closed.
C6_FailedSniffKeepsTopology ==
    \A t \in Tasks :
        task[t].sniff.state \in {"unable", "noviable"}
            => /\ endpoints = task[t].sniff.endpoints
               /\ pool = task[t].sniff.pool
               /\ \A c \in Range(pool.connections) :
                      c \in DOMAIN connection /\ ~connection[c].closed

\* C6 happens: a sniff failed on a response of dedicated masters only, and
\* another for want of an answer.
C6_Witness ==
    \E t \in Tasks :
        /\ task[t].sniff.state = "noviable"
        /\ task[t].sniff.nodes # <<>>
        /\ \A i \in DOMAIN task[t].sniff.nodes :
               task[t].sniff.nodes[i].attributes = DedicatedMaster
        /\ task[t].sniff.endpoints # <<>>

\* The flags of a node that C7 excludes: data is "false", client is "false"
\* or absent, master is "true" or absent.
C7_Excluded(n) ==
    /\ n.attributes.data = "false"
    /\ n.attributes.client \in {"false", Absent}
    /\ n.attributes.master \in {"true", Absent}

\* The nodes of a response that C7 keeps, in the order of the response.
C7_Kept(nodes) ==
    SelectSeq(nodes, LAMBDA n : AddressMatch(n.http_address) # <<>> /\ ~C7_Excluded(n))

\* C7: after a sniff that succeeded, endpoints is the list of the parsed
\* addresses of the nodes of the response that are not excluded, and nothing
\* else.
C7_EndpointsAreDiscovered ==
    \A t \in Tasks :
        task[t].sniff.state = "ok"
            => LET kept == C7_Kept(task[t].sniff.nodes)
               IN endpoints = [i \in DOMAIN kept |->
                                   AddressMatch(kept[i].http_address)[1]]

\* C7 happens: a sniff succeeded on a response with an excluded node, and an
\* endpoint known before it is gone.
C7_Witness ==
    \E t \in Tasks :
        /\ task[t].sniff.state = "ok"
        /\ \E i \in DOMAIN task[t].sniff.nodes : C7_Excluded(task[t].sniff.nodes[i])
        /\ \E e \in Range(task[t].sniff.endpoints) : e \notin Range(endpoints)

\* C8: a rebuild of the pool puts, for every entry of endpoints whose endpoint
\* had a connection in the old pool, a connection of the old pool into the new
\* one, unchanged and not closed, and a new Connection for every other entry.
C8_RebuildReusesConnections ==
    [][pool'.id # pool.id =>
        LET old == Range(pool.connections)
            oldEndpoints == {connection[c].endpoint : c \in old}
        IN /\ {connection'[c].endpoint : c \in Range(pool'.connections)}
                  = Range(endpoints')
           /\ Len(pool'.connections) = Len(endpoints')
           /\ \A c \in Range(pool'.connections) :
                  IF connection'[c].endpoint \in oldEndpoints
                  THEN /\ c \in old
                       /\ connection'[c] = connection[c]
                       /\ ~connection'[c].closed
                  ELSE /\ c \notin DOMAIN connection
                       /\ connection'[c] = NewConnection(connection'[c].endpoint)
    ]_vars

\* C8 happens: after a rebuild the pool holds a connection of the first pool
\* and a new one.
C8_Witness ==
    /\ pool.id > 1
    /\ \E c \in Range(pool.connections) : c \in Range(seed_connections)
    /\ \E c \in Range(pool.connections) : c \notin Range(seed_connections)

\* C9: a rebuild of the pool closes a connection of the old pool exactly when
\* its endpoint is not in the new endpoints.
C9_ClosedIffDropped ==
    [][pool'.id # pool.id =>
        \A c \in Range(pool.connections) :
            (c \notin DOMAIN connection' \/ connection'[c].closed)
                <=> connection[c].endpoint \notin Range(endpoints')
    ]_vars

\* C10: no seed connection is ever closed.
C10_SeedsStayOpen ==
    \A i \in DOMAIN seed_connections :
        /\ seed_connections[i] \in DOMAIN connection
        /\ ~connection[seed_connections[i]].closed

\* C12: endpoints is never empty.
C12_EndpointsNeverEmpty == endpoints # <<>>

\* C13: a transport constructed without a sniff interval (every transport of
\* Init: the sniffer_timeout argument is left out) never starts a sniff from
\* get_connection.
C13_NoIntervalNoTimedSniff ==
    \A t \in Tasks : ~(task[t].sniff.state = "running" /\ task[t].after = "select")

\* C14: once a request has failed with a connection error its connection is
\* marked dead, and mark_dead has run the sniff or nothing: the call has not
\* ended with an error raised by mark_dead itself.
C14_MarkDeadCompletes ==
    \A t \in EndedRequests :
        (task[t].attempts # <<>> /\ LastAttempt(t).outcome = "ConnectionError")
            => /\ connection[task[t].conn].dead
               /\ task[t].result \in
                      {"ConnectionError", "TransportError: Unable to sniff endpoints.",
                       "TransportError: Unable to sniff endpoints - no viable endpoints found."}

\* C15: a sniff ends on the response of a candidate that has a nodes mapping,
\* or fails as "unable to sniff endpoints" when every candidate was skipped: a
\* response without nodes does not end it.
C15_MalformedResponseIsSkipped ==
    \A t \in Tasks :
        /\ task[t].sniff.state \in {"none", "running", "ok", "noviable", "unable"}
        /\ task[t].result # "KeyError"

\* C18: when a sniff started from get_connection has failed, a sniff is due
\* again: the next get_connection call starts one.
C18_FailedSniffIsDueAgain ==
    \A t \in Tasks :
        (task[t].after = "select" /\ task[t].sniff.state \in {"unable", "noviable"})
            => now >= last_sniff + sniffer_timeout

\* C20: the pool holds no Connection object twice and no two connections of
\* one endpoint.
C20_OneConnectionPerEndpoint ==
    \A i, j \in DOMAIN pool.connections :
        i # j => /\ pool.connections[i] # pool.connections[j]
                 /\ connection[pool.connections[i]].endpoint
                        # connection[pool.connections[j]].endpoint

\* C11: every entry of endpoints is a canonical Endpoint value, whatever list
\* the constructor or the setter was given.
C11_EndpointsAreCanonical ==
    \A i \in DOMAIN endpoints : IsEndpoint(endpoints[i])

\* C16: in every state a task can be suspended or resumed in, the endpoints of
\* the connections of the pool are the entries of endpoints, each as often,
\* and no connection of the pool is closed.
C16_PoolMatchesEndpoints ==
    LET poolEndpoints == [i \in DOMAIN pool.connections |->
                             connection[pool.connections[i]].endpoint]
        Count(seq, e) == Cardinality({i \in DOMAIN seq : seq[i] = e})
    IN /\ \A e \in Range(endpoints) \cup Range(poolEndpoints) :
              Count(endpoints, e) = Count(poolEndpoints, e)
       /\ \A c \in Range(pool.connections) : ~connection[c].closed

\* C17: the connection that get_connection returns is, when it is returned, a
\* connection of the transport's pool.
C17_ReturnedFromCurrentPool ==
    [][\A t \in Tasks :
          (task[t].pc = "select" /\ task'[t].pc = "request")
              => task'[t].conn \in Range(pool'.connections)
    ]_vars

\* C19: no step closes a connection of the pool on which a request of a task
\* is in flight, and the step that ends the request finds the connection in
\* the pool.
C19_InFlightConnectionStaysOpen ==
    [][\A t \in Tasks :
          (/\ task[t].pc = "request"
           /\ task[t].conn \in Range(pool.connections)
           /\ ~connection[task[t].conn].closed)
              => /\ task[t].conn \in DOMAIN connection'
                 /\ ~connection'[task[t].conn].closed
                 /\ task'[t].pc # "request"
                        => task[t].conn \in Range(pool.connections)
    ]_vars
====
